---- MODULE Spec2Model ----
(***************************************************************************)
(* docs/conf.py of biowc-pathwaygraph: the Sphinx configuration file.      *)
(* The file is a straight-line sequence of eleven module-level assignment  *)
(* statements.  The model is the Python evaluation of that sequence in a   *)
(* module namespace: one step evaluates the right-hand side of one         *)
(* statement in the current namespace and binds the target name.           *)
(***************************************************************************)
EXTENDS Integers, Sequences, FiniteSets, TLC

VARIABLES
    ns,       \* the module namespace: name -> Python value, or Unbound
    ns0,      \* the namespace the evaluation started from (history)
    exc,      \* "none", or the exception that aborted the evaluation
    todo,     \* indices of the statements of Program not yet executed
    nassign,  \* name -> number of assignments executed on it (history)
    reordered \* whether some statement ran before an earlier one (history)

vars == <<ns, ns0, exc, todo, nassign, reordered>>

(***************************************************************************)
(* Python values.                                                          *)
(***************************************************************************)
PyStr(s) == [type |-> "str", s |-> s]
PyList(items) == [type |-> "list", items |-> items]
PyNone == [type |-> "NoneType"]
Unbound == [type |-> "unbound"]

(***************************************************************************)
(* Python expressions and statements (the forms of the ast module).        *)
(***************************************************************************)
Constant(s) == [kind |-> "Constant", value |-> s]
List(elts) == [kind |-> "List", elts |-> elts]
Name(id) == [kind |-> "Name", id |-> id]
Assign(target, value) == [target |-> target, value |-> value]

(***************************************************************************)
(* The statements of docs/conf.py, each under the name it assigns.         *)
(* Where two or more definitions share a target, the last is the file's    *)
(* statement and the ones before it are faulty variants of it, used to     *)
(* test that the properties below depend on the statement.                 *)
(***************************************************************************)
project == Assign("project", Constant("biowc-pathwaygraph"))

copyright_reads_author == Assign("copyright", Name("author"))
copyright == Assign("copyright", Constant("2023, Julian Müller"))

author == Assign("author", Constant("Julian Müller"))

extensions_as_string == Assign("extensions", Constant("sphinx_js"))
extensions_autodoc == Assign("extensions", List(<<Constant("sphinx.ext.autodoc")>>))
extensions == Assign("extensions", List(<<Constant("sphinx_js")>>))

primary_domain == Assign("primary_domain", Constant("js"))

js_language == Assign("js_language", Constant("typescript"))

js_source_path_retargeted == Assign("js_language", Constant("../src"))
js_source_path == Assign("js_source_path", Constant("../src"))

templates_path == Assign("templates_path", List(<<Constant("_templates")>>))

exclude_patterns_empty == Assign("exclude_patterns", List(<<>>))
exclude_patterns ==
    Assign("exclude_patterns",
           List(<<Constant("_build"), Constant("Thumbs.db"), Constant(".DS_Store")>>))

html_theme == Assign("html_theme", Constant("alabaster"))

html_static_path_reads_templates == Assign("html_static_path", Name("templates_path"))
html_static_path == Assign("html_static_path", List(<<Constant("_static")>>))

\* The file, in file order.
Program ==
    << project, copyright, author,
       extensions, primary_domain, js_language, js_source_path,
       templates_path, exclude_patterns,
       html_theme, html_static_path >>

\* The names the file binds.
ConfigVars ==
    { "project", "copyright", "author",
      "extensions", "primary_domain", "js_language", "js_source_path",
      "templates_path", "exclude_patterns",
      "html_theme", "html_static_path" }

(***************************************************************************)
(* Evaluation of an expression in a namespace: a value, or NameError.      *)
(***************************************************************************)
Ok(v) == [ok |-> TRUE, val |-> v]
Raise(e) == [ok |-> FALSE, exc |-> e]

RECURSIVE Eval(_, _)
Eval(e, env) ==
    CASE e.kind = "Constant" -> Ok(PyStr(e.value))
      [] e.kind = "Name" ->
            IF e.id \in DOMAIN env /\ env[e.id] # Unbound
            THEN Ok(env[e.id])
            ELSE Raise("NameError")
      [] e.kind = "List" ->
            LET rs == [i \in 1..Len(e.elts) |-> Eval(e.elts[i], env)]
            IN  IF \A i \in 1..Len(rs) : rs[i].ok
                THEN Ok(PyList([i \in 1..Len(rs) |-> rs[i].val]))
                ELSE Raise("NameError")

(***************************************************************************)
(* Starting namespaces.  The file's result is observed through ConfigVars; *)
(* a starting namespace may already bind up to MaxPreset of them to        *)
(* leftover values.                                                        *)
(***************************************************************************)
MaxPreset == 1

Leftover == { PyNone, PyStr("") }

EmptyNamespace == [v \in ConfigVars |-> Unbound]

InitNamespaces ==
    { [v \in ConfigVars |-> IF v \in S THEN f[v] ELSE Unbound] :
        <<S, f>> \in UNION { {S1} \X [S1 -> Leftover] :
                     S1 \in { S2 \in SUBSET ConfigVars : Cardinality(S2) <= MaxPreset } } }

Init ==
    /\ ns \in InitNamespaces
    /\ ns0 = ns
    /\ exc = "none"
    /\ todo = 1..Len(Program)
    /\ nassign = [v \in ConfigVars |-> 0]
    /\ reordered = FALSE

(***************************************************************************)
(* Execution of statement i: target = value.                               *)
(***************************************************************************)
Min(S) == CHOOSE x \in S : \A y \in S : x <= y

Exec(i) ==
    LET st == Program[i]
        r  == Eval(st.value, ns)
    IN  /\ exc = "none"
        /\ i \in todo
        /\ IF r.ok
           THEN /\ ns' = [ns EXCEPT ![st.target] = r.val]
                /\ nassign' = [nassign EXCEPT ![st.target] = @ + 1]
                /\ todo' = todo \ {i}
                /\ exc' = exc
           ELSE /\ exc' = r.exc
                /\ UNCHANGED <<ns, nassign, todo>>
        /\ reordered' = (reordered \/ i # Min(todo))
        /\ UNCHANGED ns0

\* The interpreter's step: the next statement in file order.
Step == todo # {} /\ Exec(Min(todo))

\* A step of an evaluation that takes the statements in an arbitrary order.
StepAnyOrder == \E i \in todo : Exec(i)

Next == Step
NextAnyOrder == StepAnyOrder

Spec == Init /\ [][Next]_vars
FairSpec == Spec /\ WF_vars(Step)
SpecAnyOrder == Init /\ [][NextAnyOrder]_vars

\* The evaluation is over: every statement ran, or one raised.
Completed == todo = {} /\ exc = "none"
Finished == todo = {} \/ exc # "none"

\* The whole file run in file order from namespace env: [ns, exc].
RECURSIVE RunFrom(_, _)
RunFrom(i, env) ==
    IF i > Len(Program) THEN [ns |-> env, exc |-> "none"]
    ELSE LET r == Eval(Program[i].value, env)
         IN  IF r.ok
             THEN RunFrom(i + 1, [env EXCEPT ![Program[i].target] = r.val])
             ELSE [ns |-> env, exc |-> r.exc]

RunFile(env) == RunFrom(1, env)

(***************************************************************************)
(* Properties.                                                             *)
(***************************************************************************)
StringVars ==
    { "project", "copyright", "author", "primary_domain",
      "js_language", "js_source_path", "html_theme" }

ListVars == { "extensions", "templates_path", "exclude_patterns", "html_static_path" }

IsStr(v) == v.type = "str"
IsListOfStr(v) == v.type = "list" /\ \A i \in 1..Len(v.items) : IsStr(v.items[i])
NonEmptyStr(v) == IsStr(v) /\ v.s # ""
NonEmptyListOfNonEmptyStr(v) ==
    /\ v.type = "list"
    /\ Len(v.items) > 0
    /\ \A i \in 1..Len(v.items) : NonEmptyStr(v.items[i])
Contains(v, x) == v.type = "list" /\ \E i \in 1..Len(v.items) : v.items[i] = x

\* C1: once the file has been evaluated, it ended without an exception, each
\* of the eleven configuration variables is bound, the seven string settings
\* are strings and the four list settings are lists of strings only.
C1_DefinedWithShape ==
    Finished =>
        /\ exc = "none"
        /\ StringVars \cup ListVars \subseteq DOMAIN ns
        /\ Cardinality(StringVars \cup ListVars) = Len(Program)
        /\ \A v \in StringVars : ns[v] # Unbound /\ IsStr(ns[v])
        /\ \A v \in ListVars : ns[v] # Unbound /\ IsListOfStr(ns[v])

\* C1 witness: the file ran to its end from a namespace in which extensions
\* was bound to a value that is no list.
C1_Witness == Completed /\ ns0["extensions"] = PyNone /\ IsListOfStr(ns["extensions"])

\* C2: after evaluation extensions contains 'sphinx_js', primary_domain is
\* 'js', js_language is 'typescript' and js_source_path is the non-empty
\* '../src'; and at every point of the evaluation, once any of the three js
\* settings has been assigned, extensions contains 'sphinx_js'.
C2_SphinxJsSelected ==
    /\ Finished =>
          /\ exc = "none"
          /\ Contains(ns["extensions"], PyStr("sphinx_js"))
          /\ ns["primary_domain"] = PyStr("js")
          /\ ns["js_language"] = PyStr("typescript")
          /\ ns["js_source_path"] = PyStr("../src")
          /\ NonEmptyStr(ns["js_source_path"])
    /\ (\E v \in {"primary_domain", "js_language", "js_source_path"} : nassign[v] > 0)
          => Contains(ns["extensions"], PyStr("sphinx_js"))

\* C2 witness: in the middle of the evaluation, the first js setting has just
\* been assigned and the other two have not.
C2_Witness ==
    /\ nassign["primary_domain"] = 1
    /\ nassign["js_language"] = 0
    /\ nassign["js_source_path"] = 0
    /\ Contains(ns["extensions"], PyStr("sphinx_js"))

\* C3: once the file has been evaluated every string setting is a non-empty
\* string and every list setting is a non-empty list of non-empty strings.
C3_NonEmpty ==
    Finished =>
        /\ exc = "none"
        /\ \A v \in StringVars : NonEmptyStr(ns[v])
        /\ \A v \in ListVars : NonEmptyListOfNonEmptyStr(ns[v])

\* C3 witness: the file ran to its end from a namespace in which project was
\* the empty string.
C3_Witness == Completed /\ ns0["project"] = PyStr("") /\ NonEmptyStr(ns["project"])

\* C4: no step changes the value, or assigns again, a variable that an
\* earlier step of the file has assigned, and when the last statement has run
\* every configuration variable has been assigned exactly once.
C4_NoMutation ==
    [][ /\ \A v \in ConfigVars :
              nassign[v] > 0 => ns'[v] = ns[v] /\ nassign'[v] = nassign[v]
        /\ todo' = {} => \A v \in ConfigVars : nassign'[v] = 1 ]_vars

\* C4 witness: the last statement has run, after ten others, each of which
\* left the earlier ones' variables as they were.
C4_Witness ==
    /\ Completed
    /\ ns0 = EmptyNamespace
    /\ \A v \in ConfigVars : nassign[v] = 1 /\ ns[v] # Unbound

\* C5: an evaluation that takes the eleven assignments in any order ends as
\* the evaluation in file order from the same starting namespace does: with
\* no exception and with the same namespace.
C5_OrderIndependent ==
    Finished => [ns |-> ns, exc |-> exc] = RunFile(ns0)

\* C5 witness: an evaluation that ran every statement, some statement before
\* an earlier one.
C5_Witness == Completed /\ reordered /\ ns = RunFile(ns0).ns

\* C6: every evaluation of the file ends, with no exception, and whatever
\* namespace it started from it ends with the configuration that the
\* evaluation from the empty namespace ends with.
C6_TerminatesDeterministic ==
    /\ <>Completed
    /\ [](Finished => exc = "none" /\ ns = RunFile(EmptyNamespace).ns)

\* C6 witness: an evaluation that started from a namespace other than the
\* empty one has ended.
C6_Witness == Completed /\ ns0 # EmptyNamespace /\ ns0["copyright"] # Unbound

====
